---- MODULE Spec2Model ----
(***************************************************************************)
(* RiseWell: the alarm ring screen (the dismissal orchestrator), the gate  *)
(* screens it navigates to, the notification and storage services it       *)
(* calls, and the scoring function.                                        *)
(*                                                                         *)
(* The repository holds two versions of the ring screen:                   *)
(*   build = "v1"  src/src/screens/AlarmRingScreen.tsx                     *)
(*   build = "v2"  src/unnamed/part_006                                    *)
(* Both are modelled; Init picks one.                                      *)
(*                                                                         *)
(* Execution model.  JavaScript runs one callback at a time; React commits *)
(* the state updates of an input event before the next event is handled.   *)
(* So one action is one callback (a press handler, a timer callback, the   *)
(* continuation of an async function after an await) together with the     *)
(* state updates and effects it triggers.  An async function is a record   *)
(* in `chains` whose pc names the await it is suspended at; a setTimeout   *)
(* is a record in `timers`.  Closures keep the values they captured.       *)
(***************************************************************************)
EXTENDS Integers, Sequences, FiniteSets, TLC

\* ---------------------------------------------------------------- bounds
MaxErrors   == 1     \* wrong taps in one puzzle
MaxElapsed  == 1     \* clock ticks that pass during one ringing episode
MaxSnoozes  == 1     \* completed snoozes of one alarm
MaxCalls    == 2     \* handleSnooze / handleDismiss invocations per episode
SampleStride == 150  \* interval callbacks covered by one modelled timer step
TickSec     == 30    \* seconds per clock tick of the model

\* ------------------------------------------------------ program constants
ThirtyDaysSec   == 2592000 \* 30 * 24 * 60 * 60 (seconds; the code counts ms)
SecPerMinute    == 60
HRCompleteAfter == 150
HRTimeoutAfter  == 300

NULL == "null"
Tri(b) == IF b THEN "true" ELSE "false"

Min(a, b) == IF a < b THEN a ELSE b
Max(a, b) == IF a > b THEN a ELSE b
Abs(a) == IF a < 0 THEN -a ELSE a

\* ------------------------------------------------------ DifficultyPolicy
\* The snooze difficulty without the clamp of its last branch.
getDifficultyForSnooze_unclamped(n) ==
    IF n = 0 THEN 1
    ELSE IF n = 1 THEN 1
    ELSE IF n = 2 THEN 2
    ELSE n

getDifficultyForSnooze(n) ==
    IF n = 0 THEN 1
    ELSE IF n = 1 THEN 1
    ELSE IF n = 2 THEN 2
    ELSE Min(4, n)

\* A base difficulty of 1 in auto mode.
baseDifficulty_easyAuto(a) == IF a.puzzleMode = "auto" THEN 1 ELSE a.puzzleDifficulty

baseDifficulty(a) == IF a.puzzleMode = "auto" THEN 2 ELSE a.puzzleDifficulty

\* The dismiss difficulty with the remainder of snoozeCount / 2 for its floor.
getDifficultyForDismiss_remainder(a, n) == Min(4, baseDifficulty(a) + (n % 2))

getDifficultyForDismiss(a, n) == Min(4, baseDifficulty(a) + (n \div 2))

\* ----------------------------------------------------- WakefulnessScorer
\* The puzzle score without the cap on the time penalty.
calculatePuzzleScore_uncappedPenalty(timeMs, errors) ==
    LET timePenalty == IF timeMs > 20000
                       THEN ((timeMs - 20000) \div 10000) * 5
                       ELSE 0
    IN  Max(0, 50 - timePenalty - errors * 10)

calculatePuzzleScore(timeMs, errors) ==
    LET timePenalty == IF timeMs > 20000
                       THEN Min(((timeMs - 20000) \div 10000) * 5, 25)
                       ELSE 0
    IN  Max(0, 50 - timePenalty - errors * 10)

calculateSnoozeScore(n) ==
    CASE n = 0 -> 30
      [] n = 1 -> 20
      [] n = 2 -> 10
      [] OTHER -> 0

\* The consistency score with strict comparisons.
calculateConsistencyScore_strict(delta) ==
    IF Abs(delta) < 10 THEN 20
    ELSE IF Abs(delta) < 20 THEN 10
    ELSE 0

calculateConsistencyScore(delta) ==
    IF Abs(delta) <= 10 THEN 20
    ELSE IF Abs(delta) <= 20 THEN 10
    ELSE 0

calculateFlashMemoryScore(correct) ==
    IF correct = NULL THEN 0 ELSE IF correct = "true" THEN 10 ELSE 0

\* The total without the cap at 100.
calculateWakefulnessScore_uncapped(timeMs, errors, n, delta, correct) ==
    LET p == calculatePuzzleScore(timeMs, errors)
        s == calculateSnoozeScore(n)
        c == calculateConsistencyScore(delta)
        f == calculateFlashMemoryScore(correct)
    IN  [puzzleScore |-> p, snoozeScore |-> s, consistencyScore |-> c,
         flashMemoryScore |-> f, total |-> p + s + c + f]

calculateWakefulnessScore(timeMs, errors, n, delta, correct) ==
    LET p == calculatePuzzleScore(timeMs, errors)
        s == calculateSnoozeScore(n)
        c == calculateConsistencyScore(delta)
        f == calculateFlashMemoryScore(correct)
    IN  [puzzleScore |-> p, snoozeScore |-> s, consistencyScore |-> c,
         flashMemoryScore |-> f, total |-> Min(p + s + c + f, 100)]

\* Math.round((Date.now() - alarmTime) / 60000); the alarm's scheduled
\* instant is clock value 0.
wakeTimeDeltaAt(t) == (2 * t * TickSec + SecPerMinute) \div (2 * SecPerMinute)

\* ------------------------------------------------------------ PPGService
\* A sample is the intensity pushed into redIntensityBuffer together with
\* two labels the code does not store: n, its arrival number since the last
\* reset, and src, the interval that produced it.  Intensities are integers.
\* A smoothed value is kept multiplied by SmoothScale, the least common
\* multiple of the window populations 6..11, so that it stays an integer;
\* the threshold is the fraction num / den of the same scale.  IEEE double
\* division is correctly rounded, so the comparisons of the code between
\* smoothed values agree with the exact ones.
MIN_SAMPLES_FOR_HR == 20
SMOOTHING_WINDOW   == 5
maxSamples         == 240
fps                == 30
MinPeakDistance    == 15
MinBpm             == 40
MaxBpm             == 200
SecondsPerMinute   == 60

SmoothScale == 8 * 9 * 5 * 7 * 11

\* Sums, maxima and loops over an index range are evaluated in halves, left
\* to right, and a value bound by \in {..} is computed once.
RECURSIVE SumRange(_, _, _)
SumRange(data, lo, hi) ==
    IF lo > hi THEN 0
    ELSE IF lo = hi THEN data[lo]
    ELSE SumRange(data, lo, (lo + hi) \div 2)
         + SumRange(data, (lo + hi) \div 2 + 1, hi)

RECURSIVE MaxRange(_, _, _)
MaxRange(data, lo, hi) ==
    IF lo = hi THEN data[lo]
    ELSE Max(MaxRange(data, lo, (lo + hi) \div 2),
             MaxRange(data, (lo + hi) \div 2 + 1, hi))

Intensities(buffer) == [i \in 1..Len(buffer) |-> buffer[i].intensity]

\* let redIntensityBuffer = [], lastPeakTime = 0, beatIntervals = [].
NewProcessor ==
    [redIntensityBuffer |-> <<>>, lastPeakTime |-> 0, beatIntervals |-> <<>>]

resetMeasurement(p) ==
    [p EXCEPT !.redIntensityBuffer = <<>>, !.lastPeakTime = 0,
              !.beatIntervals = <<>>]

\* redIntensityBuffer.length < MIN_SAMPLES_FOR_HR
TooFewSamples(buffer) == Len(buffer) < MIN_SAMPLES_FOR_HR

\* The progress of one sample more than the buffer holds.
progressOf_oneAhead(buffer) ==
    Min(100, ((Len(buffer) + 1) * 100) \div MIN_SAMPLES_FOR_HR)

\* Math.min(100, (redIntensityBuffer.length / MIN_SAMPLES_FOR_HR) * 100),
\* which is 5 * length.
progressOf(buffer) == Min(100, (Len(buffer) * 100) \div MIN_SAMPLES_FOR_HR)

\* The oldest maxSamples samples kept: slice(0, maxSamples).
KeepRecentSamples_oldest(buffer) ==
    IF Len(buffer) > maxSamples THEN SubSeq(buffer, 1, maxSamples) ELSE buffer

\* if (length > maxSamples) redIntensityBuffer = slice(-maxSamples)
KeepRecentSamples(buffer) ==
    IF Len(buffer) > maxSamples
    THEN SubSeq(buffer, Len(buffer) - maxSamples + 1, Len(buffer))
    ELSE buffer

\* result[i] = sum / count over data[max(0, i-w) .. min(len-1, i+w)].
applyMovingAverage(data, windowSize) ==
    [i \in 1..Len(data) |->
        LET lo == Max(1, i - windowSize)
            hi == Min(Len(data), i + windowSize)
        IN  SumRange(data, lo, hi) * (SmoothScale \div (hi - lo + 1))]

\* mean + (max - mean) * 0.6 = (2 * sum + 3 * n * max) / (5 * n).
calculateThreshold(data) ==
    [num |-> 2 * SumRange(data, 1, Len(data))
             + 3 * Len(data) * MaxRange(data, 1, Len(data)),
     den |-> 5 * Len(data)]

AboveThreshold(x, threshold) == x * threshold.den > threshold.num

\* The condition of the if of detectPeaks at the 0-based index i.
LocalMaximum(data, threshold, i) ==
    /\ data[i + 1] > data[i]
    /\ data[i + 1] > data[i - 1]
    /\ data[i + 1] > data[i + 2]
    /\ data[i + 1] > data[i + 3]
    /\ AboveThreshold(data[i + 1], threshold)

\* peaks.length === 0 || i - peaks[peaks.length - 1] > 15
FarEnough(peaks, i) ==
    peaks = <<>> \/ i - peaks[Len(peaks)] > MinPeakDistance

\* The loop of detectPeaks over the 0-based indices lo..hi.
RECURSIVE scanPeaks(_, _, _, _, _)
scanPeaks(data, threshold, lo, hi, peaks) ==
    IF lo > hi THEN peaks
    ELSE IF lo = hi
    THEN IF LocalMaximum(data, threshold, lo) /\ FarEnough(peaks, lo)
         THEN Append(peaks, lo) ELSE peaks
    ELSE CHOOSE all \in
           { scanPeaks(data, threshold, (lo + hi) \div 2 + 1, hi, first) :
             first \in {scanPeaks(data, threshold, lo, (lo + hi) \div 2,
                                  peaks)} } : TRUE

\* for (let i = 2; i < data.length - 2; i++)
detectPeaks(data) ==
    CHOOSE peaks \in { scanPeaks(data, threshold, 2, Len(data) - 3, <<>>) :
                         threshold \in {calculateThreshold(data)} } : TRUE

Intervals(peaks) == [i \in 1..(Len(peaks) - 1) |-> peaks[i + 1] - peaks[i]]

\* Math.round(60 / ((sum / count) / fps)): the quotient rounded half up.
\* For sum / count = 28.8 the double arithmetic of the code gives
\* 62.49999999999999 where the exact quotient is 62.5; no other average
\* of intervals above MinPeakDistance within maxSamples differs.
roundedBpm(sum, count) ==
    IF 5 * sum = 144 * count THEN 62
    ELSE (2 * SecondsPerMinute * fps * count + sum) \div (2 * sum)

\* Every rate up to MaxBpm accepted.
Reasonable_noFloor(bpm) == bpm <= MaxBpm

\* bpm >= 40 && bpm <= 200
Reasonable(bpm) == bpm >= MinBpm /\ bpm <= MaxBpm

\* heartRate: number | null, as <<bpm>> or <<>>.
NoRate == <<>>

NoReading == [heartRate |-> NoRate, progress |-> 0, peaks |-> <<>>]

\* The part of processRedIntensity after the peaks are detected.
heartRateFrom(peaks, progress) ==
    LET intervals == Intervals(peaks)
        bpm == roundedBpm(SumRange(intervals, 1, Len(intervals)),
                          Len(intervals))
    IN  IF Len(peaks) >= 2 /\ Reasonable(bpm)
        THEN [heartRate |-> <<bpm>>, progress |-> 100, peaks |-> peaks]
        ELSE [heartRate |-> NoRate, progress |-> progress, peaks |-> peaks]

\* processRedIntensity: the module state after the call and the result.
\* `peaks` is the local variable of the call, kept for the claims; the
\* confidence has no reader in the model and is left out.
processRedIntensity(p, sample) ==
    LET pushed == Append(p.redIntensityBuffer, sample)
    IN  IF TooFewSamples(pushed)
        THEN [state |-> [p EXCEPT !.redIntensityBuffer = pushed],
              result |-> [heartRate |-> NoRate, progress |-> progressOf(pushed),
                          peaks |-> <<>>]]
        ELSE CHOOSE r \in
               { [state |-> [p EXCEPT !.redIntensityBuffer = buffer],
                  result |-> heartRateFrom(peaks, progressOf(pushed))] :
                 buffer \in {KeepRecentSamples(pushed)},
                 peaks \in {detectPeaks(
                               <<>> \o applyMovingAverage(
                                   Intensities(KeepRecentSamples(pushed)),
                                   SMOOTHING_WINDOW))} } : TRUE

\* ------------------------------------------------------------- variables
VARIABLES
    build,            \* which ring screen is built: "v1" or "v2"
    alarm,            \* the AlarmConfig in storage
    cardsExist,       \* getFlashCards() returns a non-empty list
    camera,           \* camera permission: "granted", "prompt", "blocked"
    now,              \* Date.now(), in ticks
    \* ring screen component
    mounted, loaded, snoozeCount, isProcessing, dismissState,
    flashCardCorrect, puzzleStartTime, puzzleErrors, stageFlags,
    \* navigation, async functions, timers
    nav, chains, timers, nextId,
    \* collaborators
    snooze,           \* the `${id}_snooze` trigger notification
    rearmed,          \* the alarm's trigger notification for its next occurrence
    store,            \* the wake records in AsyncStorage
    \* history
    episode, episodeStart, completedSnoozes, calls, gateLog, effLog,
    solved, reported, completions,
    \* calls of the pure functions
    scoring,          \* calculateWakefulnessScore: arguments and results
    levels,           \* getDifficultyForSnooze / ForDismiss: arguments and results
    \* heart-rate measurement
    ppg,              \* PPGService: redIntensityBuffer, lastPeakTime, beatIntervals
    meter,            \* the caller of PPGService: the samples fed and the results
    heart,            \* HeartRateScreen: its state, intervals and async calls
    \* pattern puzzle
    pattern,          \* PatternMemory: its state and timers
    \* flash-card quiz
    quiz              \* FlashCardQuizScreen: its state and timers

gateVars == <<ppg, meter, heart, pattern, quiz>>
cfgVars  == <<build, alarm, cardsExist, scoring, levels, gateVars>>
ringVars == <<mounted, loaded, snoozeCount, isProcessing, dismissState,
              flashCardCorrect, puzzleStartTime, puzzleErrors, stageFlags>>
flowVars == <<nav, chains, timers, nextId>>
collVars == <<snooze, rearmed, store>>
histVars == <<episode, episodeStart, completedSnoozes, calls, gateLog, effLog,
              solved, reported, completions>>
vars == <<cfgVars, camera, now, ringVars, flowVars, collVars, histVars>>
appVars == <<build, alarm, cardsExist, camera, now, ringVars, flowVars,
             collVars, histVars>>
ringScreenVars == <<appVars, gateVars>>

\* ------------------------------------------------------- configurations
SnoozeDurations == {5}      \* alarm.snoozeDuration, in minutes (SNOOZE_OPTIONS)
ManualDifficulties == {3}   \* alarm.puzzleDifficulty of the manual-mode alarms

Alarms ==
    { a \in [puzzleMode : {"auto", "manual"}, puzzleDifficulty : 1..4,
             puzzleEnabled : BOOLEAN, heartRateEnabled : BOOLEAN,
             flashMemoryEnabled : BOOLEAN, snoozeDuration : SnoozeDurations] :
        /\ a.puzzleMode = "auto" => a.puzzleDifficulty = 2
        /\ a.puzzleMode = "manual" => a.puzzleDifficulty \in ManualDifficulties }

\* effLog counts the steps of completeDismiss performed in this episode and
\* remembers whether each was performed after its predecessor.
Effects == <<"score", "save", "cancel", "rearm", "end">>
NoEffects == [score |-> 0, save |-> 0, cancel |-> 0, rearm |-> 0, end |-> 0,
              inOrder |-> TRUE]

NoFlags == [puzzle |-> FALSE, heartRate |-> FALSE, flashCard |-> FALSE]
NoReport == [errors |-> -1, timeMs |-> -1]

\* ------------------------------------------------- screens, chains, timers
\* A screen on the navigation stack above the ring screen: its route params
\* (the onComplete closure is identified by `purpose` and by the arguments
\* hrDone / flashDone it captured) and its component state.
NewScreen(id, name, purpose, hrDone, flashDone, difficulty) ==
    [id |-> id, name |-> name, purpose |-> purpose, hrDone |-> hrDone,
     flashDone |-> flashDone, difficulty |-> difficulty,
     st |-> CASE name = "Puzzle" -> "input"
              [] name = "HeartRate" -> "instruction"
              [] OTHER -> "answer",
     errors |-> 0, startTime |-> now, sampleIndex |-> 0, attempts |-> 0,
     presses |-> 0]

NoRec == [date |-> -1, score |-> -1, snoozeCount |-> -1, puzzleTimeMs |-> -1,
          puzzleErrors |-> -1, flashMemoryCorrect |-> NULL, wakeTimeDelta |-> -1]

NewChain(pc, hrDone, flashDone, rec, at) ==
    [pc |-> pc, hrDone |-> hrDone, flashDone |-> flashDone, rec |-> rec,
     snap |-> <<>>, at |-> at]

RemoveAt(s, i) == SubSeq(s, 1, i - 1) \o SubSeq(s, i + 1, Len(s))

RemoveId(s, id) == SelectSeq(s, LAMBDA x : x.id # id)

HasId(s, id) == \E i \in 1..Len(s) : s[i].id = id

Top == nav[Len(nav)]

ReplaceTop(x) == [nav EXCEPT ![Len(nav)] = x]

\* ------------------------------------------------------- completeDismiss
\* The synchronous part of completeDismiss: the values it reads and the
\* WakeRecord it builds before the first await.
WakeRecordNow(flash) ==
    LET puzzleTimeMs == (now - puzzleStartTime) * TickSec * 1000
        wakeTimeDelta == wakeTimeDeltaAt(now)
        score == calculateWakefulnessScore(puzzleTimeMs, puzzleErrors,
                                           snoozeCount, wakeTimeDelta, flash)
    IN  [date |-> now, score |-> score.total, snoozeCount |-> snoozeCount,
         puzzleTimeMs |-> puzzleTimeMs, puzzleErrors |-> puzzleErrors,
         flashMemoryCorrect |-> flash, wakeTimeDelta |-> wakeTimeDelta]

\* The variant that filters nothing.
KeepRecent_everything(records) == records

\* saveWakeRecord: records.push(record), then keep the last 30 days.
KeepRecent(records) ==
    SelectSeq(records, LAMBDA r : r.date * TickSec > now * TickSec - ThirtyDaysSec)

\* completions: the gate screens whose completion callback has run, and
\* whether one of them ran it more than once.
NoCalls == [n |-> 0, inFlight |-> FALSE, dismissAgain |-> FALSE]

NoCompletions == [ids |-> {}, repeated |-> FALSE, again |-> FALSE]

\* The user presses a gate's completion control once, and in one episode may
\* press one such control a second time while its screen is still shown.
MayPress(screen) == screen.presses = 0 \/ ~completions.again

Pressed(screen) ==
    [completions EXCEPT !.again = @ \/ screen.presses > 0]


Completed(sid) ==
    [completions EXCEPT !.ids = @ \cup {sid},
                        !.repeated = @ \/ sid \in completions.ids]

Did(e) ==
    LET k == CHOOSE i \in 1..Len(Effects) : Effects[i] = e
        after == k = 1 \/ effLog[Effects[k - 1]] > effLog[e]
    IN  [effLog EXCEPT ![e] = @ + 1, !.inOrder = @ /\ after]

\* ------------------------------------------------- the dismiss sequencing
\* v1 checkNextDismissStep(puzzleDone, hrDone, flashDone) up to its first
\* await or return.
checkNextDismissStep(hrDone, flashDone) ==
    IF alarm.heartRateEnabled /\ ~hrDone THEN "hr"
    ELSE IF alarm.flashMemoryEnabled /\ flashDone = NULL THEN "cards"
    ELSE "complete"

\* v2 handleAfterHeartRate up to its first await or return.
handleAfterHeartRate == IF alarm.flashMemoryEnabled THEN "cards" ELSE "complete"

\* v2 handleAfterPuzzle.
handleAfterPuzzle == IF alarm.heartRateEnabled THEN "hr" ELSE handleAfterHeartRate

\* v2: setDismissState(s) followed by the dismissState effect.  The effect
\* runs only if the component is mounted and the state changed.
dismissStateEffect(s) ==
    IF ~(mounted /\ loaded) \/ s = dismissState THEN "none"
    ELSE CASE s = "puzzle_done" -> handleAfterPuzzle
           [] s = "hr_done"     -> handleAfterHeartRate
           [] s = "flash_done"  -> "complete"
           [] OTHER             -> "none"

\* v2: the dismissState after setDismissState(s) and the effect; the
\* synchronous tail of handleAfterHeartRate sets 'complete'.
stageAfter(s) ==
    IF ~mounted THEN dismissState
    ELSE IF s # dismissState /\ s \in {"puzzle_done", "hr_done"}
            /\ dismissStateEffect(s) = "complete" THEN "complete"
    ELSE s

\* What one step of the sequencing does: d = "hr" / "quiz" navigate to the
\* gate, "cards" suspends at await getFlashCards(), "complete" runs
\* completeDismiss up to await saveWakeRecord, "none" does nothing.  popId is
\* the screen whose navigation.goBack() follows the callback (0: none);
\* nav0 and chains0 are the stack and the suspended functions the caller
\* leaves behind.
Advance(d, hrDone, flashDone, popId, nav0, chains0) ==
    LET pushed ==
          CASE d = "hr" ->
                 Append(nav0, NewScreen(nextId, "HeartRate", "dismiss", hrDone, flashDone, 0))
            [] d = "quiz" ->
                 Append(nav0, NewScreen(nextId, "FlashCardQuiz", "dismiss", hrDone, flashDone, 0))
            [] OTHER -> nav0
    IN  /\ nav' = RemoveId(pushed, popId)
        /\ nextId' = IF d \in {"hr", "quiz"} THEN nextId + 1 ELSE nextId
        /\ gateLog' = CASE d = "hr" -> Append(gateLog, "HeartRate")
                        [] d = "quiz" -> Append(gateLog, "FlashCardQuiz")
                        [] OTHER -> gateLog
        /\ chains' = CASE d = "cards" ->
                            Append(chains0, NewChain("cards", hrDone, flashDone, NoRec, 0))
                       [] d = "complete" ->
                            Append(chains0, NewChain("read", hrDone, flashDone,
                                                     WakeRecordNow(flashDone), 0))
                       [] OTHER -> chains0
        /\ effLog' = IF d = "complete" THEN Did("score") ELSE effLog

\* ------------------------------------------------------------------ Init
InitRing ==
    /\ build \in {"v1", "v2"}
    /\ alarm \in Alarms
    /\ build = "v1" => alarm.puzzleEnabled       \* never read by v1
    /\ cardsExist \in BOOLEAN
    /\ ~alarm.flashMemoryEnabled => cardsExist      \* never read
    /\ alarm.puzzleMode = "manual" =>
           ~alarm.heartRateEnabled /\ ~alarm.flashMemoryEnabled
    /\ camera = IF alarm.heartRateEnabled THEN "prompt" ELSE "granted"
    /\ now = 0
    /\ mounted = TRUE /\ loaded = FALSE
    /\ snoozeCount = 0 /\ isProcessing = FALSE
    /\ dismissState = "initial" /\ flashCardCorrect = NULL
    /\ puzzleStartTime = 0 /\ puzzleErrors = 0 /\ stageFlags = NoFlags
    /\ nav = <<>> /\ chains = <<>> /\ timers = <<>> /\ nextId = 1
    /\ snooze = [pending |-> FALSE, at |-> 0]
    /\ rearmed = FALSE
    /\ store = <<>>
    /\ episode = "Ringing" /\ episodeStart = 0 /\ completedSnoozes = 0
    /\ calls = NoCalls /\ gateLog = <<>> /\ effLog = NoEffects
    /\ solved = FALSE /\ reported = NoReport /\ completions = NoCompletions

\* No call of the pure functions is under observation.
NoScore == [puzzleScore |-> -1, snoozeScore |-> -1, consistencyScore |-> -1,
            flashMemoryScore |-> -1, total |-> -1]

NoArgs == [timeMs |-> -1, errors |-> -1, snoozeCount |-> -1, delta |-> 0,
           correct |-> NULL]

NoScoring == [args |-> NoArgs, out |-> NoScore, other |-> NoScore,
              again |-> NoScore]

NoLevels == [mode |-> "auto", manual |-> 0, m |-> 0, n |-> 0,
             snoozeM |-> -1, snoozeN |-> -1, dismissM |-> -1, dismissN |-> -1]

\* The heart-rate service before its first call.
NoMeter == [period |-> 0, limit |-> 0, t |-> 0, fed |-> 0, resets |-> 0,
            out |-> NoReading, fresh |-> NewProcessor, freshOut |-> NoReading]

\* HeartRateScreen before it is mounted.  requests: the calls of
\* handleStartMeasurement suspended at requestPermission(); intervals: the
\* running setInterval timers; measurementTimer: the id held by the ref
\* (0: null); attempt: the measurements started so far.
NoHeart == [st |-> "closed", requests |-> 0, intervals |-> <<>>,
            measurementTimer |-> 0, attempt |-> 0, starts |-> 0, ticks |-> 0]

\* PatternMemory, not mounted.  wrongTaps and late are history: the wrong
\* taps handled, and the taps handled while a replay was owed or under way.
NoPattern == [st |-> "closed", difficulty |-> 0, pattern |-> <<>>,
              phase |-> "showing", userPattern |-> <<>>,
              currentShowIndex |-> -1, errors |-> 0, feedback |-> NULL,
              timers |-> <<>>, onComplete |-> <<>>, wrongTaps |-> 0,
              late |-> 0]

\* FlashCardQuizScreen, not mounted.  first and answers are history: the
\* outcome of the first answer submitted and the number of answers so far.
NoQuiz == [st |-> "closed", cards |-> {}, currentCard |-> 0, usedCardIds |-> {},
           attempts |-> 0, timers |-> <<>>, onComplete |-> <<>>,
           first |-> "none", answers |-> 0]

InitGates ==
    /\ ppg = NewProcessor /\ meter = NoMeter
    /\ heart = NoHeart /\ pattern = NoPattern /\ quiz = NoQuiz

Init == InitRing /\ scoring = NoScoring /\ levels = NoLevels /\ InitGates

\* ----------------------------------------------------------- ring screen
\* loadAlarm: getAlarmById resolves and setAlarm commits.
LoadAlarm ==
    /\ mounted /\ ~loaded
    /\ loaded' = TRUE
    /\ calls' = NoCalls
    /\ UNCHANGED <<cfgVars, camera, now, mounted, snoozeCount, isProcessing,
                   dismissState, flashCardCorrect, puzzleStartTime,
                   puzzleErrors, stageFlags, flowVars, collVars, episode,
                   episodeStart, completedSnoozes, gateLog, effLog, solved,
                   reported, completions>>

\* The early return of handleSnooze, `if (!alarm || isProcessing) return;`,
\* preceded by the variant that tests the alarm only.
handleSnoozeReturns_unguarded == ~loaded

handleSnoozeReturns == ~loaded \/ isProcessing

\* The early return of handleDismiss, likewise.
handleDismissReturns_unguarded == ~loaded

handleDismissReturns == ~loaded \/ isProcessing

\* A gate is in flight: a gate screen is shown, or a gate's timer or a
\* continuation of the snooze / dismiss sequence is outstanding.
GateInFlight == nav # <<>> \/ chains # <<>> \/ timers # <<>>

\* The dismiss puzzle is shown and has not reported completion.
DismissPuzzlePending ==
    \E j \in 1..Len(nav) : /\ nav[j].name = "Puzzle" /\ nav[j].purpose = "dismiss"
                            /\ nav[j].id \notin completions.ids

Called(kind) ==
    [n |-> calls.n + 1,
     inFlight |-> calls.inFlight \/ GateInFlight,
     dismissAgain |-> calls.dismissAgain \/ (kind = "dismiss" /\ DismissPuzzlePending)]

\* handleSnooze, invoked at any time while the ring screen is mounted.
HandleSnooze ==
    /\ mounted /\ calls.n < MaxCalls
    /\ calls' = Called("snooze")
    /\ IF handleSnoozeReturns
       THEN UNCHANGED <<isProcessing, puzzleStartTime, puzzleErrors, nav,
                        nextId, gateLog>>
       ELSE /\ isProcessing' = TRUE
            /\ puzzleStartTime' = now
            /\ puzzleErrors' = 0
            /\ nav' = Append(nav, NewScreen(nextId, "Puzzle", "snooze", FALSE, NULL,
                                            getDifficultyForSnooze(snoozeCount)))
            /\ nextId' = nextId + 1
            /\ gateLog' = Append(gateLog, "PuzzleForSnooze")
    /\ UNCHANGED <<cfgVars, camera, now, mounted, loaded, snoozeCount,
                   dismissState, flashCardCorrect, stageFlags, chains, timers,
                   collVars, episode, episodeStart, completedSnoozes, effLog,
                   solved, reported, completions>>

\* handleDismiss, invoked at any time while the ring screen is mounted.
HandleDismiss ==
    /\ mounted /\ calls.n < MaxCalls
    /\ calls' = Called("dismiss")
    /\ IF handleDismissReturns
       THEN UNCHANGED <<isProcessing, puzzleStartTime, puzzleErrors,
                        dismissState, nav, nextId, gateLog, chains, effLog>>
       ELSE /\ isProcessing' = TRUE
            /\ puzzleStartTime' = now
            /\ puzzleErrors' = 0
            /\ IF build = "v1" \/ alarm.puzzleEnabled
               THEN /\ nav' = Append(nav, NewScreen(nextId, "Puzzle", "dismiss", FALSE, NULL,
                                        getDifficultyForDismiss(alarm, snoozeCount)))
                    /\ nextId' = nextId + 1
                    /\ gateLog' = Append(gateLog, "Puzzle")
                    /\ UNCHANGED <<dismissState, chains, effLog>>
               ELSE \* v2 only: setDismissState('puzzle_done') without a puzzle
                    /\ dismissState' = stageAfter("puzzle_done")
                    /\ Advance(dismissStateEffect("puzzle_done"), FALSE,
                               flashCardCorrect, 0, nav, chains)
    /\ UNCHANGED <<cfgVars, camera, now, mounted, loaded, snoozeCount,
                   flashCardCorrect, stageFlags, timers, collVars, episode,
                   episodeStart, completedSnoozes, solved, reported, completions>>

\* ---------------------------------------------------------- puzzle gate
\* PatternMemory.handleCellPress, wrong cell: setErrors(prev => prev + 1).
PuzzleWrong ==
    /\ nav # <<>> /\ Top.name = "Puzzle" /\ Top.st = "input"
    /\ Top.errors < MaxErrors
    /\ nav' = ReplaceTop([Top EXCEPT !.errors = @ + 1])
    /\ UNCHANGED <<cfgVars, camera, now, ringVars, chains, timers, nextId,
                   collVars, histVars>>

\* PatternMemory.handleCellPress, last correct cell: phase 'feedback' and a
\* 500 ms timer whose closure holds the errors of this render.
PuzzleSolve ==
    /\ nav # <<>> /\ Top.name = "Puzzle" /\ Top.st = "input"
    /\ nav' = ReplaceTop([Top EXCEPT !.st = "feedback"])
    /\ timers' = Append(timers, [kind |-> "puzzle", sid |-> Top.id,
                                 purpose |-> Top.purpose, hrDone |-> FALSE,
                                 errors |-> Top.errors, correct |-> FALSE,
                                 startTime |-> Top.startTime])
    /\ UNCHANGED <<cfgVars, camera, now, ringVars, chains, nextId, collVars,
                   histVars>>

\* The timer fires: onComplete(errors, timeMs) reaches
\* PuzzleScreen.handlePuzzleComplete, which calls the route's onComplete()
\* without arguments and then navigation.goBack().
PuzzleTimer(i) ==
    LET t == timers[i]
        timeMs == (now - t.startTime) * TickSec * 1000
    IN
    /\ t.kind = "puzzle"
    /\ timers' = RemoveAt(timers, i)
    /\ completions' = Completed(t.sid)
    /\ IF t.purpose = "snooze"
       THEN \* completeSnooze up to await scheduleSnooze
            /\ snoozeCount' = IF mounted THEN snoozeCount + 1 ELSE snoozeCount
            /\ completedSnoozes' = completedSnoozes + 1
            /\ chains' = Append(chains, NewChain("snoozeCreate", FALSE, NULL, NoRec,
                              now + (alarm.snoozeDuration * SecPerMinute) \div TickSec))
            /\ nav' = RemoveId(nav, t.sid)
            /\ UNCHANGED <<dismissState, stageFlags, nextId, gateLog, effLog,
                           solved, reported>>
       ELSE /\ solved' = TRUE
            /\ reported' = [errors |-> t.errors, timeMs |-> timeMs]
            /\ UNCHANGED <<snoozeCount, completedSnoozes>>
            /\ IF build = "v1"
               THEN /\ stageFlags' = IF mounted THEN [stageFlags EXCEPT !.puzzle = TRUE]
                                     ELSE stageFlags
                    /\ Advance(checkNextDismissStep(FALSE, NULL), FALSE, NULL,
                               t.sid, nav, chains)
                    /\ UNCHANGED dismissState
               ELSE /\ dismissState' = stageAfter("puzzle_done")
                    /\ Advance(dismissStateEffect("puzzle_done"), FALSE,
                               flashCardCorrect, t.sid, nav, chains)
                    /\ UNCHANGED stageFlags
    /\ UNCHANGED <<cfgVars, camera, now, mounted, loaded, isProcessing,
                   flashCardCorrect, puzzleStartTime, puzzleErrors, collVars,
                   episode, episodeStart, calls>>

\* ------------------------------------------------------- heart-rate gate
\* handleStartMeasurement.  Without the permission, requestPermission()
\* resolves to the user's answer; a refusal returns with the screen
\* unchanged, and a blocked permission is refused without a prompt.
HRStart ==
    /\ nav # <<>> /\ Top.name = "HeartRate" /\ Top.st = "instruction"
    /\ \E granted \in BOOLEAN :
         /\ camera = "granted" => granted
         /\ camera = "blocked" => ~granted
         /\ camera' = IF granted THEN "granted" ELSE "blocked"
         /\ nav' = IF granted
                   THEN ReplaceTop([Top EXCEPT !.st = "measuring", !.sampleIndex = 0])
                   ELSE nav
    /\ UNCHANGED <<cfgVars, now, ringVars, chains, timers, nextId, collVars,
                   histVars>>

\* The setInterval callback of startSimulatedMeasurement; valid is
\* result.heartRate !== null.
HRTimer(j) ==
    /\ nav[j].name = "HeartRate" /\ nav[j].st = "measuring"
    /\ \E valid \in BOOLEAN :
         LET sampleIndex == nav[j].sampleIndex + SampleStride
             done == (sampleIndex > HRCompleteAfter /\ valid)
                     \/ sampleIndex > HRTimeoutAfter
         IN  nav' = [nav EXCEPT ![j] = [@ EXCEPT !.sampleIndex = sampleIndex,
                                                   !.st = IF done THEN "result" ELSE @]]
    /\ UNCHANGED <<cfgVars, camera, now, ringVars, chains, timers, nextId,
                   collVars, histVars>>

\* handleComplete ("Continue" on the result view): onComplete(), no goBack.
HRComplete ==
    /\ nav # <<>> /\ Top.name = "HeartRate" /\ Top.st = "result"
    /\ MayPress(Top)
    /\ completions' = [Completed(Top.id) EXCEPT !.again = Pressed(Top).again]
    /\ LET nav0 == ReplaceTop([Top EXCEPT !.presses = @ + 1]) IN
       IF build = "v1"
       THEN /\ stageFlags' = IF mounted THEN [stageFlags EXCEPT !.heartRate = TRUE]
                             ELSE stageFlags
            /\ Advance(checkNextDismissStep(TRUE, Top.flashDone), TRUE,
                       Top.flashDone, 0, nav0, chains)
            /\ UNCHANGED dismissState
       ELSE /\ dismissState' = stageAfter("hr_done")
            /\ Advance(dismissStateEffect("hr_done"), TRUE, flashCardCorrect, 0,
                       nav0, chains)
            /\ UNCHANGED stageFlags
    /\ UNCHANGED <<cfgVars, camera, now, mounted, loaded, snoozeCount,
                   isProcessing, flashCardCorrect, puzzleStartTime,
                   puzzleErrors, timers, collVars, episode, episodeStart,
                   completedSnoozes, calls, solved, reported>>

\* handleRetry ("Measure Again").
HRRetry ==
    /\ nav # <<>> /\ Top.name = "HeartRate" /\ Top.st = "result"
    /\ nav' = ReplaceTop([Top EXCEPT !.st = "instruction"])
    /\ UNCHANGED <<cfgVars, camera, now, ringVars, chains, timers, nextId,
                   collVars, histVars>>

\* ----------------------------------------------------------- recall gate
\* FlashCardQuizScreen.handleSubmit.  A correct answer starts a 1000 ms
\* timer whose closure holds attempts === 0; the submit control stays
\* active until the screen is popped.
QuizSubmit ==
    /\ nav # <<>> /\ Top.name = "FlashCardQuiz" /\ Top.st = "answer"
    /\ \E correct \in BOOLEAN :
         IF correct
         THEN /\ MayPress(Top)
              /\ completions' = Pressed(Top)
              /\ nav' = ReplaceTop([Top EXCEPT !.presses = @ + 1])
              /\ timers' = Append(timers, [kind |-> "quiz", sid |-> Top.id,
                                  purpose |-> "dismiss", hrDone |-> Top.hrDone,
                                  errors |-> 0, correct |-> (Top.attempts = 0),
                                  startTime |-> Top.startTime])
         ELSE /\ nav' = ReplaceTop([Top EXCEPT !.attempts = @ + 1, !.st = "wrong"])
              /\ UNCHANGED <<timers, completions>>
    /\ UNCHANGED <<cfgVars, camera, now, ringVars, chains, nextId, collVars,
                   episode, episodeStart, completedSnoozes, calls, gateLog,
                   effLog, solved, reported>>

\* handleTryAnother: another card, setAttempts(0).
QuizTryAnother ==
    /\ nav # <<>> /\ Top.name = "FlashCardQuiz" /\ Top.st = "wrong"
    /\ nav' = ReplaceTop([Top EXCEPT !.attempts = 0, !.st = "answer"])
    /\ UNCHANGED <<cfgVars, camera, now, ringVars, chains, timers, nextId,
                   collVars, histVars>>

\* The quiz timer fires: onComplete(correct), then navigation.goBack().
QuizTimer(i) ==
    LET t == timers[i]
        correct == Tri(t.correct)
    IN
    /\ t.kind = "quiz"
    /\ timers' = RemoveAt(timers, i)
    /\ completions' = Completed(t.sid)
    /\ flashCardCorrect' = IF mounted THEN correct ELSE flashCardCorrect
    /\ IF build = "v1"
       THEN /\ stageFlags' = IF mounted THEN [stageFlags EXCEPT !.flashCard = TRUE]
                             ELSE stageFlags
            /\ Advance(checkNextDismissStep(t.hrDone, correct), t.hrDone,
                       correct, t.sid, nav, chains)
            /\ UNCHANGED dismissState
       ELSE /\ dismissState' = stageAfter("flash_done")
            /\ Advance(dismissStateEffect("flash_done"), FALSE, correct, t.sid,
                       nav, chains)
            /\ UNCHANGED stageFlags
    /\ UNCHANGED <<cfgVars, camera, now, mounted, loaded, snoozeCount,
                   isProcessing, puzzleStartTime, puzzleErrors, collVars,
                   episode, episodeStart, completedSnoozes, calls, solved,
                   reported>>

\* ------------------------------------------- continuations after an await
SetPc(i, pc) == [chains EXCEPT ![i].pc = pc]

\* await getFlashCards() resolves in checkNextDismissStep (v1) or
\* handleAfterHeartRate (v2).
ResumeCards(i) ==
    LET c == chains[i]
        d == IF cardsExist THEN "quiz" ELSE "complete"
    IN
    /\ c.pc = "cards"
    /\ Advance(d, c.hrDone, c.flashDone, 0, nav, RemoveAt(chains, i))
    /\ dismissState' = IF build = "v2" /\ d = "complete" /\ mounted
                       THEN "complete" ELSE dismissState
    /\ UNCHANGED <<cfgVars, camera, now, mounted, loaded, snoozeCount,
                   isProcessing, flashCardCorrect, puzzleStartTime,
                   puzzleErrors, stageFlags, timers, collVars, episode,
                   episodeStart, completedSnoozes, calls, solved, reported,
                   completions>>

\* saveWakeRecord: await getWakeRecords() resolves with the stored list.
SaveRead(i) ==
    /\ chains[i].pc = "read"
    /\ chains' = [chains EXCEPT ![i].pc = "write", ![i].snap = store]
    /\ UNCHANGED <<cfgVars, camera, now, ringVars, nav, timers, nextId,
                   collVars, histVars>>

\* saveWakeRecord: push, filter, await setItem.
SaveWrite(i) ==
    /\ chains[i].pc = "write"
    /\ store' = KeepRecent(Append(chains[i].snap, chains[i].rec))
    /\ chains' = SetPc(i, "cancel")
    /\ effLog' = Did("save")
    /\ UNCHANGED <<cfgVars, camera, now, ringVars, nav, timers, nextId,
                   snooze, rearmed, episode, episodeStart, completedSnoozes,
                   calls, gateLog, solved, reported, completions>>

\* saveWakeRecord: AsyncStorage.setItem rejects.  setItem logs and rethrows,
\* saveWakeRecord and completeDismiss have no catch: the rejection ends
\* completeDismiss at `await saveWakeRecord`.  The variant before it
\* swallows the error and attempts the write again.
SaveWriteFails_retrying(i) ==
    /\ chains[i].pc = "write"
    /\ episode # "SaveFailed"
    /\ episode' = "SaveFailed"
    /\ effLog' = Did("save")
    /\ UNCHANGED <<cfgVars, camera, now, ringVars, flowVars, collVars,
                   episodeStart, completedSnoozes, calls, gateLog, solved,
                   reported, completions>>

SaveWriteFails(i) ==
    /\ chains[i].pc = "write"
    /\ chains' = RemoveAt(chains, i)
    /\ episode' = "SaveFailed"
    /\ effLog' = Did("save")
    /\ UNCHANGED <<cfgVars, camera, now, ringVars, nav, timers, nextId,
                   collVars, episodeStart, completedSnoozes, calls, gateLog,
                   solved, reported, completions>>

\* completeDismiss: await cancelActiveAlarm(alarm.id), which cancels the
\* `_active` and the `_snooze` notification.
CancelActive(i) ==
    /\ chains[i].pc = "cancel"
    /\ snooze' = [snooze EXCEPT !.pending = FALSE]
    /\ chains' = SetPc(i, "rearm")
    /\ effLog' = Did("cancel")
    /\ UNCHANGED <<cfgVars, camera, now, ringVars, nav, timers, nextId,
                   rearmed, store, episode, episodeStart, completedSnoozes,
                   calls, gateLog, solved, reported, completions>>

\* completeDismiss: await scheduleAlarm(alarm).
Rearm(i) ==
    /\ chains[i].pc = "rearm"
    /\ rearmed' = TRUE
    /\ chains' = SetPc(i, "reset")
    /\ effLog' = Did("rearm")
    /\ UNCHANGED <<cfgVars, camera, now, ringVars, nav, timers, nextId,
                   snooze, store, episode, episodeStart, completedSnoozes,
                   calls, gateLog, solved, reported, completions>>

\* completeDismiss: navigation.reset to Home unmounts every screen.
ResetHome(i) ==
    /\ chains[i].pc = "reset"
    /\ chains' = RemoveAt(chains, i)
    /\ nav' = <<>>
    /\ mounted' = FALSE
    /\ episode' = "Rearmed"
    /\ effLog' = Did("end")
    /\ UNCHANGED <<cfgVars, camera, now, loaded, snoozeCount, isProcessing,
                   dismissState, flashCardCorrect, puzzleStartTime,
                   puzzleErrors, stageFlags, timers, nextId, collVars,
                   episodeStart, completedSnoozes, calls, gateLog, solved,
                   reported, completions>>

\* A completeSnooze that also scores the episode and stores a WakeRecord,
\* as completeDismiss does.
SnoozeCreate_recording(i) ==
    /\ chains[i].pc = "snoozeCreate"
    /\ snooze' = [pending |-> TRUE, at |-> chains[i].at]
    /\ store' = KeepRecent(Append(store, WakeRecordNow(NULL)))
    /\ effLog' = [effLog EXCEPT !.score = @ + 1, !.save = @ + 1]
    /\ chains' = SetPc(i, IF build = "v1" THEN "snoozeReset" ELSE "snoozeCancel")
    /\ UNCHANGED <<cfgVars, camera, now, ringVars, nav, timers, nextId,
                   rearmed, episode, episodeStart, completedSnoozes, calls,
                   gateLog, solved, reported, completions>>

\* completeSnooze: await scheduleSnooze resolves; the trigger notification
\* `${id}_snooze` exists, for the time computed when scheduleSnooze was called.
SnoozeCreate(i) ==
    /\ chains[i].pc = "snoozeCreate"
    /\ snooze' = [pending |-> TRUE, at |-> chains[i].at]
    /\ chains' = SetPc(i, IF build = "v1" THEN "snoozeReset" ELSE "snoozeCancel")
    /\ UNCHANGED <<cfgVars, camera, now, ringVars, nav, timers, nextId,
                   rearmed, store, histVars>>

\* v2 completeSnooze: await cancelActiveAlarm(alarm.id).
SnoozeCancel(i) ==
    /\ chains[i].pc = "snoozeCancel"
    /\ snooze' = [snooze EXCEPT !.pending = FALSE]
    /\ chains' = SetPc(i, "snoozeReset")
    /\ UNCHANGED <<cfgVars, camera, now, ringVars, nav, timers, nextId,
                   rearmed, store, histVars>>

\* completeSnooze: (v2: setIsProcessing(false), then) navigation.reset.
SnoozeReset(i) ==
    /\ chains[i].pc = "snoozeReset"
    /\ chains' = RemoveAt(chains, i)
    /\ nav' = <<>>
    /\ mounted' = FALSE
    /\ isProcessing' = IF build = "v2" THEN FALSE ELSE isProcessing
    /\ episode' = "Rescheduled"
    /\ UNCHANGED <<cfgVars, camera, now, loaded, snoozeCount, dismissState,
                   flashCardCorrect, puzzleStartTime, puzzleErrors, stageFlags,
                   timers, nextId, collVars, episodeStart, completedSnoozes,
                   calls, gateLog, effLog, solved, reported, completions>>

\* ------------------------------------------------------------ environment
\* Time passes while the user is at a gate.  One tick is TickSec seconds:
\* the gates' timeouts of at most one second and the storage and
\* notification calls complete within the tick in which they start.
Tick ==
    /\ mounted /\ nav # <<>>
    /\ timers = <<>> /\ chains = <<>>
    /\ now - episodeStart < MaxElapsed
    /\ now' = now + 1
    /\ UNCHANGED <<cfgVars, camera, ringVars, flowVars, collVars, histVars>>

\* The snooze reminder fires and App navigates to AlarmRing: a new ring
\* screen component is constructed.  (Timers of at most one second and
\* storage calls have finished minutes before the reminder fires.)
SnoozeFires ==
    /\ ~mounted /\ snooze.pending
    /\ chains = <<>> /\ timers = <<>>
    /\ completedSnoozes <= MaxSnoozes
    /\ now' = Max(now, snooze.at)
    /\ snooze' = [snooze EXCEPT !.pending = FALSE]
    /\ mounted' = TRUE /\ loaded' = FALSE
    /\ snoozeCount' = 0 /\ isProcessing' = FALSE
    /\ dismissState' = "initial" /\ flashCardCorrect' = NULL
    /\ puzzleStartTime' = now' /\ puzzleErrors' = 0 /\ stageFlags' = NoFlags
    /\ nextId' = 1
    /\ episode' = "Ringing" /\ episodeStart' = now'
    /\ calls' = NoCalls /\ gateLog' = <<>> /\ effLog' = NoEffects
    /\ solved' = FALSE /\ reported' = NoReport /\ completions' = NoCompletions
    /\ UNCHANGED <<cfgVars, camera, nav, chains, timers, rearmed, store,
                   completedSnoozes>>

\* ------------------------------------------------------------------ Next
Next ==
    \/ LoadAlarm
    \/ HandleSnooze
    \/ HandleDismiss
    \/ PuzzleWrong
    \/ PuzzleSolve
    \/ \E i \in 1..Len(timers) : PuzzleTimer(i)
    \/ HRStart
    \/ \E j \in 1..Len(nav) : HRTimer(j)
    \/ HRComplete
    \/ HRRetry
    \/ QuizSubmit
    \/ QuizTryAnother
    \/ \E i \in 1..Len(timers) : QuizTimer(i)
    \/ \E i \in 1..Len(chains) : ResumeCards(i)
    \/ \E i \in 1..Len(chains) : SaveRead(i)
    \/ \E i \in 1..Len(chains) : SaveWrite(i)
    \/ \E i \in 1..Len(chains) : CancelActive(i)
    \/ \E i \in 1..Len(chains) : Rearm(i)
    \/ \E i \in 1..Len(chains) : ResetHome(i)
    \/ \E i \in 1..Len(chains) : SnoozeCreate(i)
    \/ \E i \in 1..Len(chains) : SnoozeCancel(i)
    \/ \E i \in 1..Len(chains) : SnoozeReset(i)
    \/ Tick
    \/ SnoozeFires

Spec == Init /\ [][Next]_vars

\* The program with a storage whose writes may fail, for the alarms that
\* have every gate enabled.
InitFail ==
    /\ Init
    /\ alarm.puzzleEnabled /\ alarm.heartRateEnabled /\ alarm.flashMemoryEnabled

NextFail ==
    \/ Next
    \/ \E i \in 1..Len(chains) : SaveWriteFails(i)

SpecFail == InitFail /\ [][NextFail]_vars

\* The steps a live environment keeps taking: the sampling interval of the
\* heart-rate screen fires while it is measuring, and the user keeps
\* pressing the controls the heart-rate screen offers.
SpecLive ==
    /\ Spec
    /\ WF_vars(\E j \in 1..Len(nav) : HRTimer(j))
    /\ SF_vars(HRStart)
    /\ SF_vars(HRComplete)

\* ------------------------------------------- calls of the scorer alone
\* calculateWakefulnessScore is called with arguments drawn from ScoreArgs,
\* then with other arguments, then with the first arguments again.
MaxTimeSteps    == 16   \* puzzleTimeMs up to MaxTimeSteps * 5000 + 1
MaxScoreErrors  == 5    \* puzzleErrors
MaxScoreSnoozes == 4    \* snoozeCount
MaxDeltaSteps   == 5    \* |wakeTimeDeltaMinutes| up to MaxDeltaSteps * 5 + 1

ScoreTimes == { k * 5000 + d : k \in 0..MaxTimeSteps, d \in {0, 1} }

ScoreDeltas == { k * 5 + d : k \in (-MaxDeltaSteps)..MaxDeltaSteps, d \in {-1, 0, 1} }

ScoreArgs ==
    [timeMs : ScoreTimes, errors : 0..MaxScoreErrors,
     snoozeCount : 0..MaxScoreSnoozes, delta : ScoreDeltas,
     correct : {NULL, "true", "false"}]

OtherArgs ==
    { [timeMs |-> 15000, errors |-> 0, snoozeCount |-> 0, delta |-> 5,
       correct |-> NULL],
      [timeMs |-> 45000, errors |-> 2, snoozeCount |-> 3, delta |-> 25,
       correct |-> "false"] }

ScoreOf(a) ==
    calculateWakefulnessScore(a.timeMs, a.errors, a.snoozeCount, a.delta, a.correct)

InitScoring ==
    /\ InitRing /\ InitGates
    /\ build = "v1" /\ alarm.puzzleMode = "auto"
    /\ ~alarm.heartRateEnabled /\ ~alarm.flashMemoryEnabled
    /\ levels = NoLevels
    /\ scoring \in { [NoScoring EXCEPT !.args = a] : a \in ScoreArgs }

\* The call under observation.
Score ==
    /\ scoring.out = NoScore
    /\ scoring' = [scoring EXCEPT !.out = ScoreOf(scoring.args)]
    /\ UNCHANGED <<ringScreenVars, levels>>

\* A call with other arguments in between.
ScoreOther ==
    /\ scoring.out # NoScore /\ scoring.again = NoScore
    /\ \E a \in OtherArgs : scoring' = [scoring EXCEPT !.other = ScoreOf(a)]
    /\ UNCHANGED <<ringScreenVars, levels>>

\* A scorer that keeps the result of its last call and returns it.
ScoreAgain_remembering ==
    /\ scoring.out # NoScore /\ scoring.again = NoScore
    /\ scoring' = [scoring EXCEPT !.again = IF scoring.other # NoScore
                                             THEN scoring.other
                                             ELSE ScoreOf(scoring.args)]
    /\ UNCHANGED <<ringScreenVars, levels>>

\* A second call with the arguments of the first.
ScoreAgain ==
    /\ scoring.out # NoScore /\ scoring.again = NoScore
    /\ scoring' = [scoring EXCEPT !.again = ScoreOf(scoring.args)]
    /\ UNCHANGED <<ringScreenVars, levels>>

NextScoring == Score \/ ScoreOther \/ ScoreAgain

SpecScoring == InitScoring /\ [][NextScoring]_vars

\* ------------------------------- calls of the difficulty functions alone
\* Both functions are called for one alarm and two snooze counts m <= n.
MaxLevelSnoozes == 8    \* snoozeCount

LevelAlarm == [puzzleMode |-> levels.mode, puzzleDifficulty |-> levels.manual]

InitLevels ==
    /\ InitRing /\ InitGates
    /\ build = "v1" /\ alarm.puzzleMode = "auto"
    /\ ~alarm.heartRateEnabled /\ ~alarm.flashMemoryEnabled
    /\ scoring = NoScoring
    /\ levels \in { [NoLevels EXCEPT !.mode = md, !.manual = d, !.m = i, !.n = j] :
                      md \in {"auto", "manual"}, d \in 1..4,
                      i \in 0..MaxLevelSnoozes, j \in 0..MaxLevelSnoozes }
    /\ levels.m <= levels.n

SnoozeLevels ==
    /\ levels.snoozeN = -1
    /\ levels' = [levels EXCEPT !.snoozeM = getDifficultyForSnooze(levels.m),
                                !.snoozeN = getDifficultyForSnooze(levels.n)]
    /\ UNCHANGED <<ringScreenVars, scoring>>

DismissLevels ==
    /\ levels.dismissN = -1
    /\ levels' = [levels EXCEPT
                    !.dismissM = getDifficultyForDismiss(LevelAlarm, levels.m),
                    !.dismissN = getDifficultyForDismiss(LevelAlarm, levels.n)]
    /\ UNCHANGED <<ringScreenVars, scoring>>

NextLevels == SnoozeLevels \/ DismissLevels

SpecLevels == InitLevels /\ [][NextLevels]_vars

\* --------------------------------------------- the signal processor fed
\* PPGService called from one caller: a triangular waveform of one period
\* is fed sample by sample.  meter.fresh is a processor created at the last
\* reset and fed the same samples since.
MaxPeriod  == 46    \* longest period of a waveform, in samples
MaxPulseSamples == 140   \* samples fed to estimate a rate
MaxSamples == 242   \* samples fed to fill the buffer
MaxPrefix  == 2     \* samples fed before the reset

WaveTop == 24

MinPeriod == (SecondsPerMinute * fps) \div MaxBpm

Periods == MinPeriod..MaxPeriod

\* The waveform of period P at time t: WaveTop at the start of a period,
\* falling by one per sample to the middle of the period and rising again.
WaveAt(P, t) == WaveTop - Min(t % P, P - (t % P))

\* Math.round(60 / (P / fps)).
ExpectedBpm(P) == (2 * SecondsPerMinute * fps + P) \div (2 * P)

InitMeter(periods, limit) ==
    /\ InitRing
    /\ build = "v1" /\ alarm.puzzleMode = "auto"
    /\ ~alarm.heartRateEnabled /\ ~alarm.flashMemoryEnabled
    /\ scoring = NoScoring /\ levels = NoLevels
    /\ heart = NoHeart /\ pattern = NoPattern /\ quiz = NoQuiz
    /\ ppg = NewProcessor
    /\ meter \in { [NoMeter EXCEPT !.period = P, !.limit = limit] :
                     P \in periods }

\* processRedIntensity(intensity, timestamp) with the next sample.
Ingest ==
    /\ meter.fed < meter.limit
    /\ \E sample \in {[intensity |-> WaveAt(meter.period, meter.t),
                        n |-> meter.fed + 1, src |-> 0]} :
       \E r \in {processRedIntensity(ppg, sample)} :
       \E f \in {IF ppg = meter.fresh THEN r
                 ELSE processRedIntensity(meter.fresh, sample)} :
           /\ ppg' = r.state
           /\ meter' = [meter EXCEPT !.t = @ + 1, !.fed = @ + 1,
                                     !.out = r.result,
                                     !.fresh = f.state,
                                     !.freshOut = f.result]
    /\ UNCHANGED <<appVars, scoring, levels, heart, pattern, quiz>>

\* resetMeasurement(), once, after at most MaxPrefix samples.
Reset ==
    /\ meter.resets = 0
    /\ meter.fed \in 1..MaxPrefix
    /\ ppg' = resetMeasurement(ppg)
    /\ meter' = [meter EXCEPT !.fed = 0, !.resets = 1, !.out = NoReading,
                              !.fresh = NewProcessor, !.freshOut = NoReading]
    /\ UNCHANGED <<appVars, scoring, levels, heart, pattern, quiz>>

\* The buffer: the shortest and the longest waveform, fed beyond maxSamples.
InitSamples == InitMeter({MinPeriod, MaxPeriod}, MaxSamples)

NextSamples == Ingest \/ Reset

SpecSamples == InitSamples /\ [][NextSamples]_vars

\* The estimate: every waveform, without a reset.
InitPulse == InitMeter(Periods, MaxPulseSamples)

NextPulse == Ingest

SpecPulse == InitPulse /\ [][NextPulse]_vars

\* ------------------------------------------------- HeartRateScreen alone
\* The heart-rate screen from its mount to "Continue".  The simulated
\* waveform of startSimulatedMeasurement (a beat of 30 / (targetHR / 60)
\* samples, targetHR in 60..99, plus noise) is fed as the triangular
\* waveform of 20 or 30 samples without noise.  Intervals of the same
\* period fire in turn, the oldest first, and the calls suspended at
\* requestPermission() are answered before the next interval callback.
MaxStarts == 2      \* calls of handleStartMeasurement
MaxTicks  == 310    \* interval callbacks

HeartPeriods == {20, 30}

hasPermission == camera = "granted"

heartOthers == <<build, alarm, cardsExist, now, ringVars, flowVars, collVars,
                 histVars, scoring, levels, pattern, quiz>>

InitHeart ==
    /\ InitRing
    /\ build = "v1" /\ alarm.puzzleMode = "auto"
    /\ alarm.heartRateEnabled /\ ~alarm.flashMemoryEnabled
    /\ scoring = NoScoring /\ levels = NoLevels
    /\ pattern = NoPattern /\ quiz = NoQuiz
    /\ ppg = NewProcessor /\ meter = NoMeter
    /\ heart = [NoHeart EXCEPT !.st = "instruction"]

\* clearInterval(id)
clearInterval(intervals, id) ==
    SelectSeq(intervals, LAMBDA v : v.id # id)

\* Every running interval has fired: the next round begins.
NextRound(intervals) ==
    IF \A k \in 1..Len(intervals) : intervals[k].fired
    THEN [k \in 1..Len(intervals) |-> [intervals[k] EXCEPT !.fired = FALSE]]
    ELSE intervals

\* handleStartMeasurement from resetMeasurement() on: the reset, the
\* component state, and startSimulatedMeasurement with its targetHR.
BeginMeasurement(h) ==
    \E P \in HeartPeriods :
        /\ ppg' = resetMeasurement(ppg)
        /\ meter' = [meter EXCEPT !.fed = 0, !.resets = 1, !.out = NoReading,
                                  !.fresh = NewProcessor,
                                  !.freshOut = NoReading]
        /\ heart' = [h EXCEPT
              !.st = "measuring",
              !.attempt = @ + 1,
              !.measurementTimer = h.attempt + 1,
              !.intervals = Append(@, [id |-> h.attempt + 1, period |-> P,
                                       sampleIndex |-> 0, fired |-> FALSE])]

\* handleStartMeasurement up to its first await.
handleStartMeasurement ==
    /\ heart.st = "instruction"
    /\ heart.starts < MaxStarts
    /\ IF hasPermission
       THEN BeginMeasurement([heart EXCEPT !.starts = @ + 1])
       ELSE /\ heart' = [heart EXCEPT !.starts = @ + 1, !.requests = @ + 1]
            /\ UNCHANGED <<ppg, meter>>
    /\ UNCHANGED <<camera, heartOthers>>

\* requestPermission() resolves for the oldest suspended call.
PermissionAnswered ==
    /\ heart.requests > 0
    /\ \E granted \in BOOLEAN :
         /\ camera = "granted" => granted
         /\ camera = "blocked" => ~granted
         /\ camera' = IF granted THEN "granted" ELSE "blocked"
         /\ IF granted
            THEN BeginMeasurement([heart EXCEPT !.requests = @ - 1])
            ELSE /\ heart' = [heart EXCEPT !.requests = @ - 1]
                 /\ UNCHANGED <<ppg, meter>>
    /\ UNCHANGED heartOthers

\* The setInterval callback of startSimulatedMeasurement.
IntervalFires(k) ==
    /\ heart.st # "closed"
    /\ heart.requests = 0
    /\ heart.ticks < MaxTicks
    /\ ~heart.intervals[k].fired
    /\ \A j \in 1..(k - 1) : heart.intervals[j].fired
    /\ LET v == heart.intervals[k]
           sampleIndex == v.sampleIndex + 1
       IN
       \E sample \in {[intensity |-> WaveAt(v.period, sampleIndex),
                        n |-> meter.fed + 1, src |-> v.id]} :
       \E r \in {processRedIntensity(ppg, sample)} :
       \E f \in {IF ppg = meter.fresh THEN r
                 ELSE processRedIntensity(meter.fresh, sample)} :
       LET complete == sampleIndex > HRCompleteAfter
                       /\ r.result.heartRate # NoRate
           timeout == sampleIndex > HRTimeoutAfter
           fired == [heart.intervals EXCEPT
                        ![k] = [@ EXCEPT !.sampleIndex = sampleIndex,
                                         !.fired = TRUE]]
       IN  /\ ppg' = r.state
           /\ meter' = [meter EXCEPT !.fed = @ + 1, !.out = r.result,
                                     !.fresh = f.state,
                                     !.freshOut = f.result]
           /\ heart' = [heart EXCEPT
                 !.ticks = @ + 1,
                 !.st = IF complete \/ timeout THEN "result" ELSE @,
                 !.intervals =
                     NextRound(IF complete \/ timeout
                               THEN clearInterval(fired, heart.measurementTimer)
                               ELSE fired)]
    /\ UNCHANGED <<camera, heartOthers>>

\* handleRetry ("Measure Again").
handleRetry ==
    /\ heart.st = "result"
    /\ ppg' = resetMeasurement(ppg)
    /\ meter' = [meter EXCEPT !.fed = 0, !.resets = 1, !.out = NoReading,
                              !.fresh = NewProcessor, !.freshOut = NoReading]
    /\ heart' = [heart EXCEPT !.st = "instruction"]
    /\ UNCHANGED <<camera, heartOthers>>

\* handleComplete ("Continue"): the timer of the ref is cleared and the
\* ring screen takes over.
handleComplete ==
    /\ heart.st = "result"
    /\ heart' = [heart EXCEPT
                    !.st = "closed",
                    !.intervals = clearInterval(@, heart.measurementTimer)]
    /\ UNCHANGED <<ppg, meter, camera, heartOthers>>

NextHeart ==
    \/ handleStartMeasurement
    \/ PermissionAnswered
    \/ \E k \in 1..Len(heart.intervals) : IntervalFires(k)
    \/ handleRetry
    \/ handleComplete

SpecHeart == InitHeart /\ [][NextHeart]_vars

\* ------------------------------------------- StorageService under many saves
\* saveWakeRecord is called up to MaxSaves times, the calls overlap as their
\* awaits allow, AsyncStorage fails a read or a write, and half months pass
\* between the calls.
MaxSaves      == 3   \* calls of saveWakeRecord in one behaviour
MaxHalfMonths == 3   \* the clock advances by up to MaxHalfMonths * 15 days

HalfMonth == ThirtyDaysSec \div (2 * TickSec)      \* in ticks

\* The calls of saveWakeRecord so far: those that ended and those under way.
SavesCalled ==
    effLog.save + Cardinality({ i \in 1..Len(chains) : chains[i].pc # "cancel" })

InitStore ==
    /\ InitRing /\ InitGates
    /\ scoring = NoScoring /\ levels = NoLevels
    /\ build = "v1" /\ alarm.puzzleMode = "auto"
    /\ ~alarm.heartRateEnabled /\ ~alarm.flashMemoryEnabled

\* saveWakeRecord(record) is called with a record dated now; the records of
\* one behaviour differ in their score.  The call runs to
\* `await this.getWakeRecords()`.
CallSave ==
    /\ SavesCalled < MaxSaves
    /\ chains' = Append(chains,
                        NewChain("read", FALSE, NULL,
                                 [NoRec EXCEPT !.date = now,
                                               !.score = SavesCalled + 1], now))
    /\ UNCHANGED <<cfgVars, camera, now, ringVars, nav, timers, nextId,
                   collVars, histVars>>

\* getItem: AsyncStorage.getItem rejects, the catch logs and returns null,
\* and getWakeRecords resolves with `records || []`, the empty list.
SaveReadFails(i) ==
    /\ chains[i].pc = "read"
    /\ chains' = [chains EXCEPT ![i].pc = "write", ![i].snap = <<>>]
    /\ UNCHANGED <<cfgVars, camera, now, ringVars, nav, timers, nextId,
                   collVars, histVars>>

\* Fifteen days pass.  No call is between its filter and the end of its
\* write: those are milliseconds apart.
HalfMonthPasses ==
    /\ now < MaxHalfMonths * HalfMonth
    /\ \A i \in 1..Len(chains) : chains[i].pc # "write"
    /\ now' = now + HalfMonth
    /\ UNCHANGED <<cfgVars, camera, ringVars, flowVars, collVars, histVars>>

NextStore ==
    \/ CallSave
    \/ \E i \in 1..Len(chains) : SaveRead(i)
    \/ \E i \in 1..Len(chains) : SaveReadFails(i)
    \/ \E i \in 1..Len(chains) : SaveWrite(i)
    \/ \E i \in 1..Len(chains) : SaveWriteFails(i)
    \/ HalfMonthPasses

SpecStore == InitStore /\ [][NextStore]_vars

\* ------------------------------------------------ FlashCardQuizScreen alone
\* The quiz screen is mounted with an onComplete callback that records its
\* argument.  st is "loading" while currentCard is null, "answer" while the
\* input and Check Answer are shown, "wrong" while the correct answer and
\* Try Another Card are shown, "closed" after navigation.goBack().
MaxCards   == 3   \* flash cards stored
MaxAnswers == 4   \* answers submitted on one screen
MaxQuizTimers == 2   \* completion timers pending at once

quizOthers == <<appVars, scoring, levels, ppg, meter, heart, pattern>>

InitQuiz ==
    /\ InitRing
    /\ build = "v1" /\ alarm.puzzleMode = "auto"
    /\ ~alarm.heartRateEnabled /\ alarm.flashMemoryEnabled /\ cardsExist
    /\ scoring = NoScoring /\ levels = NoLevels
    /\ ppg = NewProcessor /\ meter = NoMeter /\ heart = NoHeart
    /\ pattern = NoPattern
    /\ quiz = [NoQuiz EXCEPT !.st = "loading"]

\* selectRandomCard(availableCards, excludeIds): the cards it may choose,
\* each with the usedCardIds the screen holds after the call.
selectRandomCard(availableCards, excludeIds) ==
    LET available == availableCards \ excludeIds
    IN  IF available = {}
        THEN { [currentCard |-> c, usedCardIds |-> {c}] : c \in availableCards }
        ELSE { [currentCard |-> c, usedCardIds |-> excludeIds] : c \in available }

\* loadCards: await getFlashCards() resolves; with no card stored the screen
\* keeps showing Loading.
loadCards ==
    /\ quiz.st = "loading" /\ quiz.cards = {}
    /\ \E n \in 1..MaxCards :
         \E pick \in selectRandomCard(1..n, {}) :
            quiz' = [quiz EXCEPT !.cards = 1..n, !.st = "answer",
                                 !.currentCard = pick.currentCard,
                                 !.usedCardIds = pick.usedCardIds]
    /\ UNCHANGED quizOthers

\* handleSubmit with the answer typed: equal to the card's answer after
\* normalizeAnswer, or different.  (With a blank answer it returns at once.)
handleSubmit ==
    /\ quiz.st = "answer"
    /\ quiz.answers < MaxAnswers
    /\ \E typed \in {"right", "wrong"} :
         LET seen == [quiz EXCEPT !.answers = @ + 1,
                                  !.first = IF @ = "none" THEN typed ELSE @]
         IN  IF typed = "right"
             THEN /\ Len(quiz.timers) < MaxQuizTimers
                  /\ quiz' = [seen EXCEPT !.timers =
                                  Append(@, quiz.attempts = 0)]
             ELSE quiz' = [seen EXCEPT !.attempts = @ + 1, !.st = "wrong"]
    /\ UNCHANGED quizOthers

\* handleTryAnother
handleTryAnother ==
    /\ quiz.st = "wrong"
    /\ \E pick \in selectRandomCard(quiz.cards,
                                    quiz.usedCardIds \cup {quiz.currentCard}) :
         quiz' = [quiz EXCEPT !.currentCard = pick.currentCard,
                              !.usedCardIds = pick.usedCardIds,
                              !.attempts = 0, !.st = "answer"]
    /\ UNCHANGED quizOthers

\* A completion timer of handleSubmit fires after 1000 ms:
\* onComplete(attempts === 0) with the attempts of its closure, then
\* navigation.goBack().  Nothing clears the other timers.
QuizCompletes ==
    /\ quiz.timers # <<>>
    /\ quiz' = [quiz EXCEPT !.timers = Tail(@),
                            !.onComplete = Append(@, Head(quiz.timers)),
                            !.st = "closed"]
    /\ UNCHANGED quizOthers

NextQuiz ==
    \/ loadCards
    \/ handleSubmit
    \/ handleTryAnother
    \/ QuizCompletes

SpecQuiz == InitQuiz /\ [][NextQuiz]_vars

\* ------------------------------------------------------ PatternMemory alone
\* The puzzle is mounted with an onComplete callback that records the errors
\* it is given and unmounts the puzzle, as PuzzleScreen does.  Time is
\* counted in tenths of a second; a timer is a record with the tenths left.
MaxDifficulty    == 2   \* difficulties 1..MaxDifficulty
MaxCell          == 1   \* the generated patterns use the cells 0..MaxCell
MaxPatternErrors == 2   \* wrong taps on one puzzle

GRID_SIZE == 3

InitialDelay  == 5      \* await delay(500)
ShowDelay     == 7      \* await delay(700)
ResetDelay    == 10     \* setTimeout(..., 1000)
CompleteDelay == 5      \* setTimeout(..., 500)

Cells == 0..(GRID_SIZE * GRID_SIZE - 1)

getPatternLength(difficulty) ==
    CASE difficulty = 1 -> 3
      [] difficulty = 2 -> 4
      [] difficulty = 3 -> 5
      [] difficulty = 4 -> 6
      [] OTHER -> 4

\* The patterns the mount effect can generate: no cell twice in a row.
Patterns(length) ==
    { p \in [1..length -> 0..MaxCell] :
          \A k \in 1..(length - 1) : p[k] # p[k + 1] }

patternOthers == <<appVars, scoring, levels, ppg, meter, heart, quiz>>

\* A pending setTimeout: the tenths of a second left, and what its closure
\* holds (the index of showPattern's loop; errors and, as history, the input
\* when handleCellPress set the completion timer).
NewTimer(kind, left, i) ==
    [kind |-> kind, left |-> left, i |-> i, errors |-> 0, input |-> <<>>]

\* showPattern(patternToShow) up to its first await: setPhase('showing'),
\* await delay(500).
showPattern(p) ==
    [p EXCEPT !.phase = "showing",
              !.timers = Append(@, NewTimer("start", InitialDelay, 0))]

\* The puzzle after its mount effect: a pattern is generated and shown.
InitPattern ==
    /\ InitRing
    /\ build = "v1" /\ alarm.puzzleMode = "auto"
    /\ ~alarm.heartRateEnabled /\ ~alarm.flashMemoryEnabled
    /\ scoring = NoScoring /\ levels = NoLevels
    /\ ppg = NewProcessor /\ meter = NoMeter /\ heart = NoHeart
    /\ quiz = NoQuiz
    /\ \E d \in 1..MaxDifficulty :
         \E newPattern \in Patterns(getPatternLength(d)) :
            pattern = showPattern([NoPattern EXCEPT !.st = "mounted",
                                                    !.difficulty = d,
                                                    !.pattern = newPattern])

\* A replay is owed (a reset timer is pending) or under way.
Replaying(p) ==
    \E k \in 1..Len(p.timers) : p.timers[k].kind \in {"reset", "start", "step"}

\* A tenth of a second passes; no timer is due.
PatternTick ==
    /\ pattern.timers # <<>>
    /\ \A k \in 1..Len(pattern.timers) : pattern.timers[k].left > 0
    /\ pattern' = [pattern EXCEPT !.timers =
                       [k \in 1..Len(@) |-> [@[k] EXCEPT !.left = @ - 1]]]
    /\ UNCHANGED patternOthers

\* handleCellPress(index).  The cell is disabled unless phase is 'input'.
handleCellPress ==
    /\ pattern.st = "mounted" /\ pattern.phase = "input"
    /\ \E index \in Cells :
         LET nextIndex == Len(pattern.userPattern)
             tapped == [pattern EXCEPT !.late =
                            IF Replaying(pattern) THEN @ + 1 ELSE @]
         IN  IF nextIndex < Len(pattern.pattern)
                /\ index = pattern.pattern[nextIndex + 1]
             THEN LET newUserPattern == Append(pattern.userPattern, index)
                      entered == [tapped EXCEPT !.userPattern = newUserPattern]
                  IN  IF Len(newUserPattern) = Len(pattern.pattern)
                      THEN pattern' =
                             [entered EXCEPT
                                !.feedback = "correct", !.phase = "feedback",
                                !.timers = Append(@,
                                    [NewTimer("complete", CompleteDelay, 0)
                                       EXCEPT !.errors = pattern.errors,
                                              !.input = newUserPattern])]
                      ELSE pattern' = entered
             ELSE /\ pattern.errors < MaxPatternErrors
                  /\ pattern' =
                       [tapped EXCEPT
                          !.errors = @ + 1, !.wrongTaps = @ + 1,
                          !.feedback = "wrong",
                          !.timers = Append(@, NewTimer("reset", ResetDelay, 0))]
    /\ UNCHANGED patternOthers

\* A timer that is due fires.  The state setters of an unmounted component
\* do nothing.
PatternTimer(k) ==
    LET t == pattern.timers[k]
        rest == [pattern EXCEPT !.timers = RemoveAt(@, k)]
        up == pattern.st = "mounted"
    IN
    /\ t.left = 0
    /\ CASE t.kind = "complete" ->
              \* onComplete(errors, timeMs); the parent unmounts the puzzle
              pattern' = [rest EXCEPT !.onComplete =
                                          Append(@, [errors |-> t.errors,
                                                     input |-> t.input]),
                                      !.st = "unmounted"]
         [] t.kind = "reset" ->
              \* setFeedback(null); setUserPattern([]); showPattern(pattern)
              pattern' = IF up
                         THEN showPattern([rest EXCEPT !.feedback = NULL,
                                                       !.userPattern = <<>>])
                         ELSE [showPattern(rest) EXCEPT !.phase = pattern.phase]
         [] t.kind = "start" ->
              \* i = 0: setCurrentShowIndex(0), await delay(700)
              pattern' = [rest EXCEPT
                            !.currentShowIndex = IF up THEN 0 ELSE @,
                            !.timers = Append(@, NewTimer("step", ShowDelay, 0))]
         [] t.kind = "step" ->
              IF t.i + 1 < Len(pattern.pattern)
              THEN pattern' = [rest EXCEPT
                                 !.currentShowIndex = IF up THEN t.i + 1 ELSE @,
                                 !.timers = Append(@, NewTimer("step", ShowDelay,
                                                                t.i + 1))]
              ELSE \* setCurrentShowIndex(-1); setPhase('input')
                   pattern' = IF up
                              THEN [rest EXCEPT !.currentShowIndex = -1,
                                                !.phase = "input"]
                              ELSE rest
    /\ UNCHANGED patternOthers

NextPattern ==
    \/ PatternTick
    \/ handleCellPress
    \/ \E k \in 1..Len(pattern.timers) : PatternTimer(k)

SpecPattern == InitPattern /\ [][NextPattern]_vars

\* ================================================================ claims
\* The completion callback of no gate screen has run twice.
EachGateCompletedOnce == ~completions.repeated

DismissPuzzles ==
    { j \in 1..Len(nav) : nav[j].name = "Puzzle" /\ nav[j].purpose = "dismiss" }

Positions(name) == { k \in 1..Len(gateLog) : gateLog[k] = name }

\* C1: when handleDismiss is called again before the first dismiss puzzle
\* has resolved, and every gate reports its completion once, scoring runs
\* once and saveWakeRecord is invoked once: the episode ends with exactly
\* one WakeRecord saved.
C1_OneRecordForTwoDismissCalls ==
    (calls.dismissAgain /\ EachGateCompletedOnce) =>
        /\ Cardinality(Positions("Puzzle")) = 1
        /\ effLog.score <= 1 /\ effLog.save <= 1
        /\ episode = "Rearmed" => (effLog.save = 1 /\ Len(store) = 1)

C1_Witness ==
    /\ calls.dismissAgain /\ EachGateCompletedOnce
    /\ episode = "Rearmed" /\ effLog.save = 1 /\ Len(store) = 1

\* C2: a dismiss attempt reaches scoring, the WakeRecord write or the
\* re-arm only after the puzzle gate was presented and completed in that
\* attempt.
C2_NoDismissWithoutSolvedPuzzle ==
    (effLog.score > 0 \/ effLog.save > 0 \/ effLog.rearm > 0) =>
        (Positions("Puzzle") # {} /\ solved)

\* C3: after k completed snoozes the ring screen uses snooze count k: the
\* dismiss puzzle has the difficulty derived from k and the WakeRecord
\* stores snoozeCount = k.
C3_SnoozeCountReflectsSnoozes ==
    /\ \A j \in DismissPuzzles :
          nav[j].difficulty = getDifficultyForDismiss(alarm, completedSnoozes)
    /\ \A i \in 1..Len(store) : store[i].snoozeCount = completedSnoozes

\* C4: when the episode ends in Rescheduled the snooze reminder is pending
\* and fires snoozeDuration minutes after the snooze gate completed.
C4_SnoozeReminderPending ==
    episode = "Rescheduled" =>
        /\ snooze.pending
        /\ snooze.at = now + (alarm.snoozeDuration * SecPerMinute) \div TickSec

\* C5: once the heart-rate gate is entered its completion callback is
\* eventually called.
HeartRateAwaited ==
    \E j \in 1..Len(nav) : nav[j].name = "HeartRate" /\ nav[j].presses = 0

HeartRateCompleted ==
    \E j \in 1..Len(nav) : nav[j].name = "HeartRate" /\ nav[j].presses > 0

C5_HeartRateGateCompletes == HeartRateAwaited ~> HeartRateCompleted

\* C6: the puzzleErrors and puzzleTimeMs of the WakeRecord are the errors
\* and timeMs the dismiss puzzle reported.
C6_RecordHoldsReportedPuzzleOutcome ==
    reported # NoReport =>
        \A i \in 1..Len(store) :
            /\ store[i].puzzleErrors = reported.errors
            /\ store[i].puzzleTimeMs = reported.timeMs

\* C7: a handleSnooze or handleDismiss call made while a gate is in flight
\* presents no screen and leaves the puzzle start timestamp, the puzzle
\* error count, snoozeCount, the dismiss stage and everything else the
\* handlers write unchanged.
C7_CallInFlightChangesNothing ==
    [][(GateInFlight /\ calls' # calls) =>
          UNCHANGED <<nav, nextId, puzzleStartTime, puzzleErrors, snoozeCount,
                      dismissState, stageFlags, isProcessing, flashCardCorrect,
                      chains, timers, gateLog, effLog, collVars>>]_vars

C7_Witness ==
    /\ calls.inFlight /\ calls.n = MaxCalls
    /\ Len(nav) = 1 /\ Len(gateLog) = 1

\* C8: with heartRateEnabled = false and flashMemoryEnabled = false a
\* dismiss attempt that reaches scoring has presented exactly one gate, the
\* puzzle, and never enters the heart-rate screen or the quiz.
C8_PuzzleIsTheOnlyGate ==
    (~alarm.heartRateEnabled /\ ~alarm.flashMemoryEnabled) =>
        /\ Positions("HeartRate") = {} /\ Positions("FlashCardQuiz") = {}
        /\ effLog.score > 0 => gateLog = <<"Puzzle">>

\* C9: the gates of a dismiss attempt are entered in the order puzzle,
\* heart-rate, recall, each at most once; heart-rate iff heartRateEnabled,
\* recall iff flashMemoryEnabled and a flash card exists.
C9_GatesInFixedOrder ==
    /\ \A name \in {"Puzzle", "HeartRate", "FlashCardQuiz"} :
          Cardinality(Positions(name)) <= 1
    /\ \A h \in Positions("HeartRate") :
          /\ alarm.heartRateEnabled
          /\ \E p \in Positions("Puzzle") : p < h
    /\ \A q \in Positions("FlashCardQuiz") :
          /\ alarm.flashMemoryEnabled /\ cardsExist
          /\ \E p \in Positions("Puzzle") : p < q
          /\ \A h \in Positions("HeartRate") : h < q
    /\ effLog.score > 0 =>
          /\ alarm.heartRateEnabled => Positions("HeartRate") # {}
          /\ (alarm.flashMemoryEnabled /\ cardsExist) =>
                 Positions("FlashCardQuiz") # {}

\* C10: score, save, cancel, re-arm and end are each performed once and in
\* this order; when the dismiss sequence has ended each has been performed
\* and exactly one WakeRecord is stored.
C10_CompletionStepsOnceInOrder ==
    /\ effLog.inOrder
    /\ \A k \in 1..Len(Effects) : effLog[Effects[k]] <= 1
    /\ effLog.rearm <= effLog.save
    /\ (episode = "Rearmed" /\ chains = <<>> /\ timers = <<>>) =>
          /\ \A k \in 1..Len(Effects) : effLog[Effects[k]] = 1
          /\ Len(store) = 1 /\ rearmed /\ ~snooze.pending

\* C11: the snooze branch produces no WakeRecord: while the episode's gate
\* is the snooze puzzle, and when it has ended in Rescheduled, nothing was
\* scored, saveWakeRecord was not called and the stored wake records are as
\* they were, whatever the number of snoozes completed so far.
SnoozeBranch == gateLog # <<>> /\ gateLog[1] = "PuzzleForSnooze"

C11_SnoozeWritesNoRecord ==
    (SnoozeBranch \/ episode = "Rescheduled") =>
        /\ store = <<>>
        /\ effLog.score = 0 /\ effLog.save = 0

C11_Witness ==
    /\ episode = "Rescheduled" /\ completedSnoozes = 2
    /\ store = <<>> /\ effLog.save = 0

\* C12: when the write of the WakeRecord fails, completeDismiss ends there:
\* the write was attempted once, no WakeRecord is stored, and the
\* notifications are not cancelled, the alarm is not re-armed and the
\* episode does not reach Rearmed for that attempt.
C12_SaveFailureEndsCompletion ==
    (episode = "SaveFailed" /\ EachGateCompletedOnce) =>
        /\ chains = <<>>
        /\ effLog.score = 1 /\ effLog.save = 1
        /\ store = <<>>
        /\ effLog.cancel = 0 /\ effLog.rearm = 0 /\ effLog.end = 0
        /\ ~rearmed /\ mounted

C12_Witness ==
    /\ episode = "SaveFailed" /\ EachGateCompletedOnce
    /\ timers = <<>> /\ Len(gateLog) = 3
    /\ effLog.save = 1 /\ store = <<>> /\ ~rearmed

\* C13: for every puzzleTimeMs >= 0, puzzleErrors >= 0, snoozeCount >= 0,
\* wakeTimeDeltaMinutes of either sign and recallCorrect in {null, true,
\* false}, the total returned by calculateWakefulnessScore is within 0..100.
Scored == scoring.out # NoScore

WholePeriods(timeMs) ==
    CHOOSE q \in 0..(2 * MaxTimeSteps) :
        q * 10000 <= timeMs - 20000 /\ timeMs - 20000 < (q + 1) * 10000

ClaimedTimePenalty(timeMs) ==
    IF timeMs <= 20000 THEN 0
    ELSE IF 5 * WholePeriods(timeMs) < 25 THEN 5 * WholePeriods(timeMs) ELSE 25

ClaimedPuzzle(timeMs, errors) ==
    IF 50 - ClaimedTimePenalty(timeMs) - 10 * errors > 0
    THEN 50 - ClaimedTimePenalty(timeMs) - 10 * errors
    ELSE 0

C14_PuzzleComponent ==
    Scored =>
        /\ scoring.out.puzzleScore
             = ClaimedPuzzle(scoring.args.timeMs, scoring.args.errors)
        /\ scoring.out.puzzleScore \in 0..50

C14_Witness ==
    /\ Scored /\ scoring.args.timeMs > 70000 /\ scoring.args.errors = 2
    /\ scoring.out.puzzleScore = 5

\* C15: total = min(100, puzzle + snooze + consistency + recall); snooze is
\* 30, 20, 10 for snoozeCount 0, 1, 2 and 0 from 3 on; consistency is 20
\* for |delta| <= 10, 10 for |delta| <= 20, else 0; recall is 10 for true
\* and 0 for false or null.  (15000, 0, 0, 5, null) gives 50/30/20/0 and
\* 100; (45000, 2, 3, 25, false) gives 20/0/0/0 and 20.
ClaimedSnooze(n) == IF n >= 3 THEN 0 ELSE 30 - 10 * n

ClaimedConsistency(delta) ==
    IF -10 <= delta /\ delta <= 10 THEN 20
    ELSE IF -20 <= delta /\ delta <= 20 THEN 10 ELSE 0

ClaimedRecall(correct) == IF correct = "true" THEN 10 ELSE 0

SnoozeLevelsKnown == levels.snoozeN # -1

DismissLevelsKnown == levels.dismissN # -1

C17_LevelsWithinRange ==
    /\ SnoozeLevelsKnown => (levels.snoozeM \in 1..4 /\ levels.snoozeN \in 1..4)
    /\ DismissLevelsKnown => (levels.dismissM \in 1..4 /\ levels.dismissN \in 1..4)

C17_Witness ==
    /\ SnoozeLevelsKnown /\ DismissLevelsKnown
    /\ levels.mode = "manual" /\ levels.manual = 4
    /\ levels.m = 0 /\ levels.n = MaxLevelSnoozes
    /\ levels.snoozeM = 1 /\ levels.snoozeN = 4 /\ levels.dismissN = 4

\* C18: for every alarm configuration and every snoozeCount n, the dismiss
\* difficulty for n is at least the snooze difficulty for n.
C18_DismissAtLeastSnooze ==
    (SnoozeLevelsKnown /\ DismissLevelsKnown) =>
        /\ levels.dismissM >= levels.snoozeM
        /\ levels.dismissN >= levels.snoozeN

\* C19: in auto puzzle mode, for every snoozeCount n, the dismiss difficulty
\* at n is at least the snooze difficulty at n.
C19_AutoDismissAtLeastSnooze ==
    (SnoozeLevelsKnown /\ DismissLevelsKnown /\ levels.mode = "auto") =>
        /\ levels.dismissM >= levels.snoozeM
        /\ levels.dismissN >= levels.snoozeN

C19_Witness ==
    /\ SnoozeLevelsKnown /\ DismissLevelsKnown /\ levels.mode = "auto"
    /\ levels.m = 3 /\ levels.snoozeM = 3 /\ levels.dismissM = 3
    /\ levels.n = 5 /\ levels.snoozeN = 4 /\ levels.dismissN = 4

\* C20: both difficulty functions are non-decreasing in snoozeCount: for a
\* fixed alarm and m <= n, the level at m is at most the level at n.
C20_LevelsMonotone ==
    /\ SnoozeLevelsKnown => levels.snoozeM <= levels.snoozeN
    /\ DismissLevelsKnown => levels.dismissM <= levels.dismissN

C20_Witness ==
    /\ SnoozeLevelsKnown /\ DismissLevelsKnown
    /\ levels.m < levels.n
    /\ levels.snoozeM < levels.snoozeN /\ levels.dismissM < levels.dismissN

\* C21: after resetMeasurement, each of the first 19 calls of
\* processRedIntensity returns heartRate = null and progress < 100, whatever
\* the intensities; the 20th call is the first that returns progress = 100.
C21_NoEstimateBeforeTwentySamples ==
    /\ meter.fed \in 1..19 =>
          (meter.out.heartRate = NoRate /\ meter.out.progress < 100)
    /\ meter.fed = 20 => meter.out.progress = 100

C21_Witness ==
    /\ meter.resets = 1 /\ meter.fed = 19
    /\ meter.out.heartRate = NoRate /\ meter.out.progress = 95

\* C22: after any sequence of processRedIntensity calls the buffer holds at
\* most 240 samples, and once more than 240 were ingested since the last
\* reset it holds exactly the 240 most recent ones in arrival order.
C22_BufferHoldsMostRecent ==
    LET buffer == ppg.redIntensityBuffer IN
    /\ Len(buffer) <= 240
    /\ meter.fed > 240 =>
          /\ Len(buffer) = 240
          /\ \A i \in 1..240 : buffer[i].n = meter.fed - 240 + i

C22_Witness ==
    /\ meter.fed = 242
    /\ Len(ppg.redIntensityBuffer) = 240
    /\ ppg.redIntensityBuffer[1].n = 3
    /\ ppg.redIntensityBuffer[240].n = 242

\* The peaks of the last call, the sum of their intervals and the number of
\* intervals.
PeaksFound == meter.out.peaks

IntervalSum == PeaksFound[Len(PeaksFound)] - PeaksFound[1]

IntervalCount == Len(PeaksFound) - 1

\* C24: a periodic waveform of period P whose expected rate
\* round(60 / (P/30)) lies in [40,200], fed until two peaks above the
\* threshold are found, yields a non-null heartRate within 2 BPM of the
\* expected rate.
C24_PeriodicWaveformRate ==
    (ExpectedBpm(meter.period) \in 40..200 /\ Len(PeaksFound) >= 2) =>
        /\ meter.out.heartRate # NoRate
        /\ Abs(meter.out.heartRate[1] - ExpectedBpm(meter.period)) <= 2

\* The smoothed buffer of the last call that reached peak detection.
SmoothedBuffer ==
    <<>> \o applyMovingAverage(Intensities(ppg.redIntensityBuffer), 5)

\* The accepted peaks before the index i.
AcceptedBefore(i) ==
    { PeaksFound[k] : k \in { j \in 1..Len(PeaksFound) : PeaksFound[j] < i } }

\* C26: a sample at index i in 2..len-3 of the smoothed buffer that strictly
\* exceeds its two neighbours on each side and the adaptive threshold is
\* accepted as a peak if and only if no peak was accepted before it or it
\* lies at least 15 samples after the previously accepted peak.
C26_MinimumPeakSpacing ==
    meter.fed >= 20 =>
       \A data \in {SmoothedBuffer} :
       \A threshold \in {calculateThreshold(data)} :
       \A i \in 2..(Len(data) - 3) :
          LocalMaximum(data, threshold, i) =>
             ( (\E k \in 1..Len(PeaksFound) : PeaksFound[k] = i)
               <=> \/ AcceptedBefore(i) = {}
                   \/ \A q \in AcceptedBefore(i) : i - q >= 15 )

\* C27 as claimed: every non-null heartRate comes from an average interval
\* whose exact rate 60 / (average / 30) lies within [40,200].
C27_ExactRateWithinRange ==
    meter.out.heartRate # NoRate =>
        /\ 40 * IntervalSum <= 60 * 30 * IntervalCount
        /\ 60 * 30 * IntervalCount <= 200 * IntervalSum

\* C27, amended: heartRate is null whenever the rate rounded to the nearest
\* integer lies outside [40,200]; a non-null heartRate lies in 40..200 and
\* comes from an exact rate in [39.5, 200.5).
RoundsIntoRange ==
    /\ 79 * IntervalSum <= 2 * 60 * 30 * IntervalCount
    /\ 2 * 60 * 30 * IntervalCount < 401 * IntervalSum

C27_RoundedRateWithinRange ==
    /\ meter.out.heartRate # NoRate =>
          (meter.out.heartRate[1] \in 40..200 /\ RoundsIntoRange)
    /\ (Len(PeaksFound) >= 2 /\ meter.out.heartRate = NoRate) => ~RoundsIntoRange

C27_Witness ==
    /\ meter.out.heartRate = <<40>>
    /\ 60 * 30 * IntervalCount < 40 * IntervalSum

\* C23: resetMeasurement returns the signal processor to its initial state
\* (the results after a reset are those of a fresh processor fed the same
\* samples), and the heart-rate screen resets before the first sample of
\* every measurement, first start and retries alike, so that the buffer
\* holds no sample of another measurement.
C23_ResetStartsEveryMeasurementAfresh ==
    /\ meter.resets > 0 => (ppg = meter.fresh /\ meter.out = meter.freshOut)
    /\ \A k \in 1..Len(ppg.redIntensityBuffer) :
          ppg.redIntensityBuffer[k].src = heart.attempt


\* The record is one of the stored list.
Stored(rec, list) == \E k \in 1..Len(list) : list[k] = rec

\* The record is dated less than thirty days before now.
WithinThirtyDays(rec) == (now - rec.date) * TickSec < ThirtyDaysSec

\* The step in which the write of call i has succeeded.
SaveSucceeds(i) ==
    /\ chains[i].pc = "write"
    /\ chains' = [chains EXCEPT ![i].pc = "cancel"]

\* C25: after every successful saveWakeRecord the stored list holds no record
\* dated more than 30 days before the time of the save, and it holds the
\* record just saved when that record is dated within the last 30 days.
C25_SaveKeepsThirtyDays ==
    [][\A i \in 1..Len(chains) :
          SaveSucceeds(i) =>
              /\ \A k \in 1..Len(store') :
                     (now - store'[k].date) * TickSec <= ThirtyDaysSec
              /\ WithinThirtyDays(chains[i].rec) => Stored(chains[i].rec, store')
      ]_vars

\* A save has succeeded that read an older record, dropped it for its age
\* and stored its own record.
C25_Witness ==
    \E i, j \in 1..Len(chains) :
        /\ chains[i].pc = "cancel" /\ chains[j].pc = "cancel"
        /\ Stored(chains[i].rec, chains[j].snap)
        /\ (chains[j].rec.date - chains[i].rec.date) * TickSec >= ThirtyDaysSec
        /\ store = <<chains[j].rec>>

\* Every call of saveWakeRecord has ended.
SavesSettled == \A i \in 1..Len(chains) : chains[i].pc = "cancel"

\* C30: once the calls of saveWakeRecord have ended, every record that was
\* saved successfully and is dated within the last 30 days is in the stored
\* list, whatever the overlap of the calls and whichever reads failed.
C30_NoRecentRecordLost ==
    SavesSettled =>
        \A i \in 1..Len(chains) :
            WithinThirtyDays(chains[i].rec) => Stored(chains[i].rec, store)


\* C28: the quiz reports correct = true only when the first answer submitted
\* was correct; after a wrong answer and another card the callback receives
\* correct = false.
C28_CorrectOnlyOnFirstAnswer ==
    \A k \in 1..Len(quiz.onComplete) :
        quiz.onComplete[k] => quiz.first = "right"


\* C29: a wrong tap discards the partial input and forces a replay: no tap
\* made after a wrong tap and before the replay has finished is counted,
\* each wrong tap adds exactly one error, and onComplete fires at most once
\* and only after the whole pattern has been entered.
C29_WrongTapForcesReplay ==
    /\ pattern.late = 0
    /\ pattern.errors = pattern.wrongTaps
    /\ Len(pattern.onComplete) <= 1
    /\ \A k \in 1..Len(pattern.onComplete) :
           pattern.onComplete[k].input = pattern.pattern
====
